---- MODULE Spec2Model ----
(***************************************************************************)
(* Model of cg-elb-log-ingestor: the S3 log fetcher, the ALB/ELB log       *)
(* parser and the Elasticsearch shipper, with the queues between them.     *)
(*                                                                         *)
(* The model starts after the workers are constructed: the imports and    *)
(* the bootstrap of main.py are not part of it.  The components have       *)
(* specifications of their own.  FetcherSpec is S3LogFetcher.run on a      *)
(* bucket, with an environment that uploads log objects and, in the place  *)
(* of the parser,                                                          *)
(* puts names on the done queue.  Spec is LogParser.run feeding            *)
(* ElasticsearchShipper.run through the record queue, with an environment  *)
(* that puts claimed log objects on the to-do queue: in FetcherSpec the    *)
(* fetcher itself never gets as far as putting one there.  IdSpec and      *)
(* PruneSpec apply generate_id and remove_empty_fields to inputs drawn     *)
(* from bounded sets, and StatsSpec is the two stats objects called by     *)
(* the parser thread, the shipper thread and the thread of the HTTP        *)
(* server, one attribute access at a time.                                 *)
(*                                                                         *)
(* Python values are tagged records, so that None, str, int, float, dict   *)
(* and list stay distinguishable: [k |-> "none"], [k |-> "str", s |-> ..], *)
(* [k |-> "dict", d |-> <function from keys to values>], ...               *)
(***************************************************************************)
EXTENDS Integers, Sequences, FiniteSets, TLC

(***************************************************************************)
(* Bounds                                                                  *)
(***************************************************************************)
\* number of batches the environment hands to the parser
MaxBatches == 2
\* number of non-conflict failures the search engine produces in a run
MaxIndexErrors == 2
\* number of storage calls that fail in a run
MaxStorageErrors == 2
\* number of objects uploaded under the unprocessed prefix during a run
MaxUploads == 2
\* number of done notifications the fetcher's environment sends
MaxNotifications == 2
\* number of log objects the fetcher's bucket can hold
MaxObjects == 3
\* depth of the dicts nested in a dict given to remove_empty_fields
MaxDepth == 3
\* number of calls the workers and the status task make on the stats objects
MaxStatsCalls == 3
\* S3LogFetcher.start_queue_size, as configured
start_queue_size == 2

(***************************************************************************)
(* Python values                                                           *)
(***************************************************************************)
None == [k |-> "none"]
Str(s) == [k |-> "str", s |-> s]
PyInt(s) == [k |-> "int", s |-> s]
PyFloat(s) == [k |-> "float", s |-> s]
Dict(f) == [k |-> "dict", d |-> f]
EmptyDict == Dict(<<>>)
EmptyList == [k |-> "list", l |-> <<>>]
\* the "verb url protocol" f-string of format_alb_match / format_elb_match
Message(verb, url, proto) == [k |-> "str3", verb |-> verb, url |-> url, proto |-> proto]

\* x or '-' on a value that is None or a str
OrDash(v) == IF v = None \/ v = Str("") THEN "-" ELSE v.s

(***************************************************************************)
(* Log lines.  A line of a batch is a sequence of tokens: its text and the *)
(* whitespace around it.  The two regular expressions are tables from the  *)
(* stripped text to the groupdict of the match (NoMatch when the           *)
(* expression does not match).                                             *)
(***************************************************************************)
Whitespace == {" ", "\n"}

RECURSIVE LStrip(_)
LStrip(t) == IF t # <<>> /\ Head(t) \in Whitespace THEN LStrip(Tail(t)) ELSE t

RECURSIVE RStrip(_)
RStrip(t) ==
    IF t # <<>> /\ t[Len(t)] \in Whitespace THEN RStrip(SubSeq(t, 1, Len(t) - 1)) ELSE t

\* str.strip()
Strip(t) == RStrip(LStrip(t))

NoMatch == <<>>

\* groups shared by the ALB and the ELB expression, with the values of a
\* well-formed request
CommonGroups ==
    [time |-> "2018-07-02T22:23:00.186641Z",
     elb |-> "lb-1",
     client_ip |-> "10.0.0.1",
     client_port |-> "2817",
     target_ip |-> "10.0.0.2",
     target_port |-> "80",
     request_processing_time |-> "0.000",
     target_processing_time |-> "0.001",
     response_processing_time |-> "0.000",
     elb_status_code |-> "200",
     target_status_code |-> "200",
     received_bytes |-> "34",
     sent_bytes |-> "366",
     request_verb |-> "GET",
     request_url |-> "http://www.example.com:80/",
     request_proto |-> "HTTP/1.1",
     user_agent |-> "curl/7.46.0",
     ssl_cipher |-> "-",
     ssl_protocol |-> "-"]

AlbOnlyGroups ==
    [type |-> "http",
     target_group_arn |-> "arn:tg-1",
     trace_id |-> "Root=1-58337262",
     domain_name |-> "-",
     chosen_cert_arn |-> "-",
     matched_rule_priority |-> "0",
     request_creation_time |-> "2018-07-02T22:22:48.364000Z",
     actions_executed |-> "forward",
     redirect_url |-> "-",
     lambda_error_reason |-> "",
     new_field |-> ""]

AlbGroups == CommonGroups @@ AlbOnlyGroups
ElbGroups == CommonGroups

\* the texts of the lines the environment can put in a batch
LineTexts ==
    {"alb-ok", "alb-ok-later-us", "alb-no-trace", "alb-bad-float", "alb-no-time",
     "alb-replay", "elb-ok", "elb-no-bytes", "elb-bad-int", "elb-no-target",
     "garbage"}

\* ALB_LOG_LINE_REGEX.match(line)
ALB_LOG_LINE_REGEX(line) ==
    CASE line = <<"alb-ok">> -> AlbGroups
      [] line = <<"alb-ok-later-us">> ->
            [AlbGroups EXCEPT !.time = "2018-07-02T22:23:00.186999Z",
                              !.trace_id = "Root=1-58337263"]
      [] line = <<"alb-no-trace">> -> [AlbGroups EXCEPT !.trace_id = "-"]
      [] line = <<"alb-bad-float">> ->
            [AlbGroups EXCEPT !.request_processing_time = "1.2.3",
                              !.trace_id = "Root=1-58337264"]
      [] line = <<"alb-no-time">> ->
            [AlbGroups EXCEPT !.time = "-", !.trace_id = "Root=1-58337265"]
      [] line = <<"alb-replay">> ->
            [AlbGroups EXCEPT !.time = "2018-07-03T00:00:01.000000Z"]
      [] OTHER -> NoMatch

\* ELB_LOG_LINE_REGEX.match(line)
ELB_LOG_LINE_REGEX(line) ==
    CASE line = <<"elb-ok">> -> ElbGroups
      [] line = <<"elb-no-bytes">> -> [ElbGroups EXCEPT !.received_bytes = "-"]
      [] line = <<"elb-bad-int">> ->
            [ElbGroups EXCEPT !.elb_status_code = "2-0", !.client_port = "2818"]
      [] line = <<"elb-no-target">> ->
            [ElbGroups EXCEPT !.target_ip = "", !.target_port = "",
                              !.client_port = "2819"]
      [] OTHER -> NoMatch

(***************************************************************************)
(* Field coercion                                                          *)
(***************************************************************************)
IntTokens == {"0", "34", "80", "200", "366", "2817", "2818", "2819"}
FloatTokens == IntTokens \cup {"0.000", "0.001"}

\* strptime(timestamp, "%Y-%m-%dT%H:%M:%S.%f%z") accepts exactly these
TimestampTokens ==
    {"2018-07-02T22:23:00.186641Z", "2018-07-02T22:23:00.186999Z",
     "2018-07-02T22:22:48.364000Z", "2018-07-03T00:00:01.000000Z"}

\* timestamp_to_timestamp on a token strptime accepts: UTC, milliseconds, "Z"
timestamp_to_timestamp(ts) ==
    CASE ts = "2018-07-02T22:23:00.186641Z" -> "2018-07-02T22:23:00.186Z"
      [] ts = "2018-07-02T22:23:00.186999Z" -> "2018-07-02T22:23:00.186Z"
      [] ts = "2018-07-02T22:22:48.364000Z" -> "2018-07-02T22:22:48.364Z"
      [] ts = "2018-07-03T00:00:01.000000Z" -> "2018-07-03T00:00:01.000Z"

\* ALB_LOGS_FIELD_TYPES
ALB_LOGS_FIELD_TYPES ==
    [type |-> "str",
     time |-> "timestamp",
     elb |-> "str",
     client_ip |-> "str",
     client_port |-> "int",
     target_ip |-> "str",
     target_port |-> "int",
     request_processing_time |-> "float",
     target_processing_time |-> "float",
     response_processing_time |-> "float",
     elb_status_code |-> "int",
     target_status_code |-> "int",
     received_bytes |-> "int",
     sent_bytes |-> "int",
     request_verb |-> "str",
     request_url |-> "str",
     request_proto |-> "str",
     user_agent |-> "str",
     ssl_cipher |-> "str",
     ssl_protocol |-> "str",
     target_group_arn |-> "str",
     trace_id |-> "str",
     domain_name |-> "str",
     chosen_cert_arn |-> "str",
     matched_rule_priority |-> "str",
     request_creation_time |-> "timestamp",
     actions_executed |-> "str",
     redirect_url |-> "str",
     lambda_error_reason |-> "str",
     new_field |-> "str"]

\* the converter raises ValueError on this token
ConverterRaises(converter, token) ==
    CASE converter = "int" -> token \notin IntTokens
      [] converter = "float" -> token \notin FloatTokens
      [] converter = "timestamp" -> token \notin TimestampTokens
      [] OTHER -> FALSE

Convert(converter, token) ==
    CASE converter = "int" -> PyInt(token)
      [] converter = "float" -> PyFloat(token)
      [] converter = "timestamp" -> Str(timestamp_to_timestamp(token))
      [] OTHER -> Str(token)

\* only '-' represents a None-ish value
IsNoneToken_dash_only(token) == token = "-"

\* '-' and '' represent None-ish values
IsNoneToken(token) == token = "-" \/ token = ""

\* coerce_match_types raises ValueError
CoerceRaises(groups) ==
    \E field \in DOMAIN groups \cap DOMAIN ALB_LOGS_FIELD_TYPES :
        /\ ~IsNoneToken(groups[field])
        /\ ConverterRaises(ALB_LOGS_FIELD_TYPES[field], groups[field])

\* coerce_match_types, when it does not raise
coerce_match_types(groups) ==
    [field \in DOMAIN groups |->
        IF field \in DOMAIN ALB_LOGS_FIELD_TYPES
        THEN IF IsNoneToken(groups[field])
             THEN None
             ELSE Convert(ALB_LOGS_FIELD_TYPES[field], groups[field])
        ELSE Str(groups[field])]

\* the re.Match object read with match[...] : every group as the str matched
RawMatch(groups) == [field \in DOMAIN groups |-> Str(groups[field])]

(***************************************************************************)
(* Reshaping a match into a document                                       *)
(***************************************************************************)
\* format_alb_match
format_alb_match(match) ==
    ("@message" :> Message(OrDash(match["request_verb"]), OrDash(match["request_url"]),
                           OrDash(match["request_proto"])))
    @@ ("@timestamp" :> match["time"])
    @@ ("@alb" :> Dict(
          [matched_rule_priority |-> match["matched_rule_priority"],
           actions_executed |-> match["actions_executed"],
           target_group_arn |-> match["target_group_arn"],
           domain_name |-> match["domain_name"],
           alb |-> Dict([id |-> match["elb"], status_code |-> match["elb_status_code"]]),
           received_bytes |-> match["received_bytes"],
           chosen_cert_arn |-> match["chosen_cert_arn"],
           client |-> Dict([ip |-> match["client_ip"], port |-> match["client_port"]]),
           response |-> Dict([processing_time |-> match["response_processing_time"]]),
           redirect_url |-> match["redirect_url"],
           sent_bytes |-> match["sent_bytes"],
           trace_id |-> match["trace_id"],
           target |-> Dict([port |-> match["target_port"],
                            processing_time |-> match["target_processing_time"],
                            status_code |-> match["target_status_code"],
                            ip |-> match["target_ip"]]),
           type |-> match["type"],
           request |-> Dict([verb |-> match["request_verb"],
                             url |-> match["request_url"],
                             protocol |-> match["request_proto"],
                             processing_time |-> match["request_processing_time"],
                             creation_time |-> match["request_creation_time"]]),
           user_agent |-> match["user_agent"]]))

\* format_elb_match
format_elb_match(match) ==
    ("@message" :> Message(OrDash(match["request_verb"]), OrDash(match["request_url"]),
                           OrDash(match["request_proto"])))
    @@ ("@elb" :> Dict(
          [response |-> Dict([processing_time |-> match["response_processing_time"]]),
           elb |-> Dict([id |-> match["elb"], status_code |-> match["elb_status_code"]]),
           ssl |-> Dict([cipher |-> match["ssl_cipher"], protocol |-> match["ssl_protocol"]]),
           sent_bytes |-> match["sent_bytes"],
           target |-> Dict([port |-> match["target_port"],
                            processing_time |-> match["target_processing_time"],
                            status_code |-> match["target_status_code"],
                            ip |-> match["target_ip"]]),
           received_bytes |-> match["received_bytes"],
           request |-> Dict([user_agent |-> match["user_agent"],
                             url |-> match["request_url"],
                             processing_time |-> match["request_processing_time"],
                             verb |-> match["request_verb"],
                             protocol |-> match["request_proto"]]),
           client |-> Dict([ip |-> match["client_ip"], port |-> match["client_port"]])]))
    @@ ("@timestamp" :> match["time"])

\* False, 0 and the empty str
PyBool(s) == [k |-> "bool", s |-> s]
Falsy == {PyBool("False"), PyInt("0"), Str("")}

\* remove_empty_fields popping every value that is falsy
RECURSIVE remove_empty_fields_falsy(_)
remove_empty_fields_falsy(d) ==
    LET pruned(key) == IF d[key].k = "dict"
                       THEN Dict(remove_empty_fields_falsy(d[key].d))
                       ELSE d[key]
        kept == {key \in DOMAIN d :
                    pruned(key) \notin {None, EmptyDict, EmptyList} \cup Falsy}
    IN [key \in kept |-> pruned(key)]

\* remove_empty_fields: dicts are pruned in place first, then every value
\* that is None, {} or [] is popped
RECURSIVE remove_empty_fields(_)
remove_empty_fields(d) ==
    LET pruned(key) == IF d[key].k = "dict"
                       THEN Dict(remove_empty_fields(d[key].d))
                       ELSE d[key]
        kept == {key \in DOMAIN d :
                    pruned(key) \notin {None, EmptyDict, EmptyList}}
    IN [key \in kept |-> pruned(key)]

\* add_metadata
add_metadata(record, line, filename) ==
    (("@input" :> Str("s3"))
     @@ ("@shipper.name" :> Str("elb_log_ingestor"))
     @@ ("@version" :> Str("1"))
     @@ ("@raw" :> Str(line))
     @@ ("@level" :> Str("INFO"))
     @@ ("tags" :> EmptyList)
     @@ ("path" :> Str(filename)))
    @@ record

(***************************************************************************)
(* Identifiers                                                             *)
(***************************************************************************)
\* str(x) of a value that is a str or an int
PyStr(v) == v.s

\* ":".join(parts)
RECURSIVE Join(_)
Join(parts) ==
    IF Len(parts) <= 1 THEN parts
    ELSE <<Head(parts), ":">> \o Join(Tail(parts))

\* hashlib.sha256(key).hexdigest(): a digest of the key, injective on it
sha256(key) == [digest |-> "sha256", of |-> key]

\* entry[k1][k2]... exists
RECURSIVE HasPath(_, _)
HasPath(entry, path) ==
    \/ path = <<>>
    \/ /\ Head(path) \in DOMAIN entry
       /\ \/ Len(path) = 1
          \/ /\ entry[Head(path)].k = "dict"
             /\ HasPath(entry[Head(path)].d, Tail(path))

\* the lookups generate_id makes; a missing one raises KeyError
IdPaths(entry) ==
    IF "@alb" \in DOMAIN entry
    THEN {<<"@alb", "trace_id">>}
    ELSE {<<"@elb", "elb", "id">>, <<"@elb", "client", "ip">>,
          <<"@elb", "client", "port">>, <<"@timestamp">>,
          <<"@elb", "received_bytes">>}

GenerateIdRaises(entry) == \E path \in IdPaths(entry) : ~HasPath(entry, path)

\* an identifier that is the key itself, not a digest of it
Plain(key) == [digest |-> "none", of |-> key]

\* generate_id returning the ALB trace id as it is
generate_id_unhashed(entry) ==
    IF "@alb" \in DOMAIN entry
    THEN Plain(<<entry["@alb"].d["trace_id"].s>>)
    ELSE sha256(Join(<<entry["@elb"].d["elb"].d["id"].s,
                       entry["@elb"].d["client"].d["ip"].s,
                       PyStr(entry["@elb"].d["client"].d["port"]),
                       entry["@timestamp"].s,
                       PyStr(entry["@elb"].d["received_bytes"])>>))

\* generate_id with a key that leaves out the size of the request
generate_id_without_bytes(entry) ==
    IF "@alb" \in DOMAIN entry
    THEN sha256(<<entry["@alb"].d["trace_id"].s>>)
    ELSE sha256(Join(<<entry["@elb"].d["elb"].d["id"].s,
                       entry["@elb"].d["client"].d["ip"].s,
                       PyStr(entry["@elb"].d["client"].d["port"]),
                       entry["@timestamp"].s>>))

\* generate_id, when it does not raise
generate_id(entry) ==
    IF "@alb" \in DOMAIN entry
    THEN sha256(<<entry["@alb"].d["trace_id"].s>>)
    ELSE sha256(Join(<<entry["@elb"].d["elb"].d["id"].s,
                       entry["@elb"].d["client"].d["ip"].s,
                       PyStr(entry["@elb"].d["client"].d["port"]),
                       entry["@timestamp"].s,
                       PyStr(entry["@elb"].d["received_bytes"])>>))

(***************************************************************************)
(* Storage keys: a key is the sequence of its prefix and the rest of the   *)
(* name, so that startswith and replace work on it.                        *)
(***************************************************************************)
unprocessed_prefix == <<"logs/">>
processing_prefix == <<"logs-working/">>
processed_prefix == <<"logs-done/">>

\* the log objects of the bucket, by the name they are uploaded under, in the
\* order the listing returns them
Bases == <<"a.log", "b.log", "c.log", "d.log", "e.log", "f.log">>
BaseSet == {Bases[i] : i \in 1..Len(Bases)}

\* the content of each log object: its lines, as readlines() returns them
Content(base) ==
    CASE base = "a.log" -> << <<"alb-ok", "\n">>, <<"elb-ok", "\n">> >>
      [] base = "b.log" -> << <<"alb-bad-float", "\n">>, <<"garbage", "\n">>,
                              <<"alb-ok", "\n">> >>
      [] base = "c.log" -> << <<"alb-no-trace", "\n">> >>
      [] base = "d.log" -> << <<"alb-no-time", "\n">> >>
      [] base = "e.log" -> << <<"alb-replay", "\n">> >>
      [] base = "f.log" -> << <<" ", "elb-bad-int", "\n">>, <<"elb-no-target", "\n">> >>

Key(prefix, base) == prefix \o <<base>>

\* None, where a name or a (name, lines) pair is expected
NoName == <<>>

(***************************************************************************)
(* State                                                                   *)
(***************************************************************************)
VARIABLES
    \* S3LogFetcher
    bucket,           \* the objects of the bucket: key -> name of its content
    healthy,          \* S3LogFetcher.healthy
    fetcher_pc,       \* "prime", "wait", "replenish" or "dead"
    prime_i,          \* iterations of the priming loop done
    \* the queues
    to_do,            \* logs_to_be_processed: (name, lines)
    done,             \* logs_processed: names
    record_queue,     \* records: (id, document)
    \* LogParser
    parser_pc,        \* "get", "parse", "finish" or "dead"
    name,             \* the batch the parser works on
    lines,
    line_no,          \* the next line of the batch
    parser_stats,
    \* ElasticsearchShipper
    shipper_pc,       \* "run" or "dead"
    shipper_stats,
    es_docs,          \* the documents of the search engine: [index, id, body]
    fromisoformat_accepts_z,  \* the interpreter: 3.11 and later accept "...Z"
    \* bookkeeping of the run
    claimed,          \* the log objects the environment has put on to_do, in order
    index_errors,     \* non-conflict failures of create so far
    attempts,         \* the calls of index_record: [id, record, outcome]
    storage_errors,   \* storage calls that raised so far
    uploads,          \* objects uploaded so far
    notified,         \* names put on done by the fetcher's environment
    last_storage_op,  \* outcome of the fetcher's last storage call
    last_finalize,    \* outcome of the fetcher's last mark_log_processed
    batch_no,         \* batches the parser has taken from to_do
    emitted,          \* the puts of the parser: [batch, line, text, pair]
    errored,          \* the lines counted as errored: [batch, line]
    taken,            \* the objects get_next_log has moved out of unprocessed
    \* the stats objects under concurrent use
    locks,            \* the holder of each stats object's lock
    threads,          \* the worker and the status task: position and locals
    observed,         \* the summaries read and the values the stats have had
    \* the pure functions applied to drawn inputs
    pure_in,
    pure_out

fetcher_vars == <<bucket, healthy, fetcher_pc, prime_i, storage_errors, uploads,
                  notified, last_storage_op, last_finalize, taken>>
parser_vars == <<parser_pc, name, lines, line_no, parser_stats, claimed,
                 batch_no, emitted, errored>>
shipper_vars == <<shipper_pc, shipper_stats, es_docs, fromisoformat_accepts_z,
                  index_errors, attempts>>
aux_vars == <<locks, threads, observed, pure_in, pure_out>>
vars == <<fetcher_vars, parser_vars, shipper_vars, aux_vars, to_do, done,
          record_queue>>

\* datetime.datetime.min; datetime.now() is modelled as a stamp that grows
\* with every reading
DatetimeMin == 0

\* ParserStats.__init__
ParserStatsInit ==
    [lines_processed |-> 0, lines_errored |-> 0, files_processed |-> 0,
     last_new_file_time |-> DatetimeMin]

\* ShipperStats.__init__
ShipperStatsInit ==
    [documents_indexed |-> 0, documents_errored |-> 0, duplicates_skipped |-> 0,
     last_document_time |-> DatetimeMin]

(***************************************************************************)
(* LogParser                                                               *)
(***************************************************************************)
\* the environment of the parser: a claimed log object arrives on the to-do
\* queue as (processing name, lines); the same object can arrive twice
PutBatch(base) ==
    /\ Len(claimed) < MaxBatches
    /\ to_do' = Append(to_do, <<Key(processing_prefix, base), Content(base)>>)
    /\ claimed' = Append(claimed, base)
    /\ UNCHANGED <<aux_vars, fetcher_vars, shipper_vars, done, record_queue,
                   parser_pc, name, lines, line_no, parser_stats,
                   batch_no, emitted, errored>>

\* LogParser.run: file_in_queue.get() and stats.new_file_time()
ParserGet ==
    /\ parser_pc = "get"
    /\ to_do # <<>>
    /\ name' = Head(to_do)[1]
    /\ lines' = Head(to_do)[2]
    /\ line_no' = 1
    /\ to_do' = Tail(to_do)
    /\ parser_stats' = [parser_stats EXCEPT
                           !.last_new_file_time = parser_stats.last_new_file_time + 1]
    /\ parser_pc' = IF Head(to_do)[2] = <<>> THEN "finish" ELSE "parse"
    /\ batch_no' = batch_no + 1
    /\ UNCHANGED <<aux_vars, fetcher_vars, shipper_vars, done, record_queue, claimed,
                   emitted, errored>>

\* the match, with log_type set to ELB whichever expression matched
MatchLine_always_elb(line) ==
    IF ALB_LOG_LINE_REGEX(line) # NoMatch
    THEN [log_type |-> "elb", groups |-> ALB_LOG_LINE_REGEX(line)]
    ELSE [log_type |-> "elb", groups |-> ELB_LOG_LINE_REGEX(line)]

\* the first expression that matches, ALB first
MatchLine(line) ==
    IF ALB_LOG_LINE_REGEX(line) # NoMatch
    THEN [log_type |-> "alb", groups |-> ALB_LOG_LINE_REGEX(line)]
    ELSE [log_type |-> "elb", groups |-> ELB_LOG_LINE_REGEX(line)]

\* the document parse_alb_logs builds from a match: coercion (the raw match
\* is kept when it raises), reshaping, pruning, metadata
DocumentFromMatch(m, line, filename) ==
    LET coerced == IF CoerceRaises(m.groups)
                   THEN RawMatch(m.groups)
                   ELSE coerce_match_types(m.groups)
        formatted == IF m.log_type = "alb"
                     THEN format_alb_match(coerced)
                     ELSE format_elb_match(coerced)
    IN add_metadata(remove_empty_fields(formatted), line, filename)

\* the document parse_alb_logs builds from a matched line
BuildDocument(filename, line) == DocumentFromMatch(MatchLine(line), line, filename)

\* parse_alb_logs raising on a line no expression matches
AfterNoMatch_raise(n, ls) == [parser_pc |-> "dead", line_no |-> n]

\* parse_alb_logs going on with the next line after a line no expression matches
AfterNoMatch_continue(n, ls) ==
    [parser_pc |-> IF n = Len(ls) THEN "finish" ELSE "parse", line_no |-> n + 1]

\* parse_alb_logs after a line no expression matches: return
AfterNoMatch(n, ls) == [parser_pc |-> "finish", line_no |-> n]

\* outbox.put on a last-in-first-out queue
put_lifo(queue, item) == <<item>> \o queue

\* outbox.put: queue.Queue is first-in-first-out
put(queue, item) == Append(queue, item)

\* ParserStats.increment_lines_errored
increment_lines_errored(stats) ==
    [stats EXCEPT !.lines_errored = stats.lines_errored + 1]

\* increment_lines_processed adding to the other counter of lines
increment_lines_processed_as_errored(stats) ==
    [stats EXCEPT !.lines_errored = stats.lines_errored + 1]

\* ParserStats.increment_lines_processed
increment_lines_processed(stats) ==
    [stats EXCEPT !.lines_processed = stats.lines_processed + 1]

\* LogParser.parse_alb_logs: one iteration of the loop over the lines
ParseLine ==
    /\ parser_pc = "parse"
    /\ LET line == Strip(lines[line_no])
           m == MatchLine(line)
           doc == BuildDocument(name, line)
       IN IF m.groups = NoMatch
          THEN \* no expression matches: count the line and return
               /\ parser_stats' = increment_lines_errored(parser_stats)
               /\ parser_pc' = AfterNoMatch(line_no, lines).parser_pc
               /\ line_no' = AfterNoMatch(line_no, lines).line_no
               /\ errored' = Append(errored, [batch |-> batch_no, line |-> line_no])
               /\ UNCHANGED <<record_queue, emitted>>
          ELSE IF GenerateIdRaises(doc)
          THEN \* KeyError leaves parse_alb_logs and run
               /\ parser_pc' = "dead"
               /\ UNCHANGED <<record_queue, line_no, parser_stats, emitted, errored>>
          ELSE \* the document is never None here: the else of line 196 is dead
               /\ record_queue' = put(record_queue, <<generate_id(doc), doc>>)
               /\ parser_stats' = increment_lines_processed(parser_stats)
               /\ line_no' = line_no + 1
               /\ parser_pc' = IF line_no = Len(lines) THEN "finish" ELSE "parse"
               /\ emitted' = Append(emitted, [batch |-> batch_no, line |-> line_no,
                                              text |-> line,
                                              pair |-> <<generate_id(doc), doc>>])
               /\ UNCHANGED errored
    /\ UNCHANGED <<aux_vars, fetcher_vars, shipper_vars, to_do, done, name, lines,
                   claimed, batch_no>>

\* LogParser.run: file_out_queue.put(name) and stats.increment_files_processed()
ParserFinish ==
    /\ parser_pc = "finish"
    /\ done' = Append(done, name)
    /\ parser_stats' = [parser_stats EXCEPT
                           !.files_processed = parser_stats.files_processed + 1]
    /\ parser_pc' = "get"
    /\ UNCHANGED <<aux_vars, fetcher_vars, shipper_vars, to_do, record_queue,
                   name, lines, line_no, claimed, batch_no, emitted, errored>>

(***************************************************************************)
(* ElasticsearchShipper                                                    *)
(***************************************************************************)
\* datetime.fromisoformat raises ValueError on this string
FromIsoformatRaises(ts) == ~fromisoformat_accepts_z

\* ts.strftime("logs-platform-%Y.%m.%d")
Strftime(ts) ==
    CASE ts \in {"2018-07-02T22:23:00.186Z", "2018-07-02T22:23:00.186641Z"}
            -> "logs-platform-2018.07.02"
      [] ts = "2018-07-03T00:00:01.000Z" -> "logs-platform-2018.07.03"

\* figure_index raises: KeyError without "@timestamp", ValueError on a string
\* fromisoformat rejects
FigureIndexRaises(record) ==
    \/ "@timestamp" \notin DOMAIN record
    \/ FromIsoformatRaises(record["@timestamp"].s)

\* figure_index, when it does not raise
figure_index(record) == Strftime(record["@timestamp"].s)

\* the document create(index, id, body) stores
EsDoc(index, id, body) == [index |-> index, id |-> id, body |-> body]

\* create raises ConflictError: the index has a document with this id
Conflict(index, id) == \E d \in es_docs : d.index = index /\ d.id = id

\* the outcomes of es.create: "created", "conflict", or a failure of another
\* kind, that happened before ("error") or after ("error-stored") the search
\* engine stored the document
CreateOutcomes(index, id) ==
    (IF Conflict(index, id) THEN {"conflict"} ELSE {"created"})
    \cup (IF index_errors < MaxIndexErrors
          THEN IF Conflict(index, id) THEN {"error"} ELSE {"error", "error-stored"}
          ELSE {})

\* index_record with the conflict handled by the general except clause
index_record_conflict_as_error(queue, stats, id_, record, outcome) ==
    IF outcome = "created"
    THEN [queue |-> queue,
          stats |-> [stats EXCEPT
                        !.documents_indexed = stats.documents_indexed + 1,
                        !.last_document_time = stats.last_document_time + 1]]
    ELSE [queue |-> Append(queue, <<id_, record>>),
          stats |-> [stats EXCEPT !.documents_errored = stats.documents_errored + 1]]

\* index_record without the put that returns a failed pair to the queue
index_record_no_requeue(queue, stats, id_, record, outcome) ==
    CASE outcome = "conflict" ->
            [queue |-> queue,
             stats |-> [stats EXCEPT !.duplicates_skipped = stats.duplicates_skipped + 1]]
      [] outcome \in {"error", "error-stored"} ->
            [queue |-> queue,
             stats |-> [stats EXCEPT !.documents_errored = stats.documents_errored + 1]]
      [] outcome = "created" ->
            [queue |-> queue,
             stats |-> [stats EXCEPT
                           !.documents_indexed = stats.documents_indexed + 1,
                           !.last_document_time = stats.last_document_time + 1]]

\* index_record counting a conflict as an indexed document
index_record_conflict_counts_indexed(queue, stats, id_, record, outcome) ==
    IF outcome \in {"error", "error-stored"}
    THEN [queue |-> Append(queue, <<id_, record>>),
          stats |-> [stats EXCEPT !.documents_errored = stats.documents_errored + 1]]
    ELSE [queue |-> queue,
          stats |-> [stats EXCEPT
                        !.documents_indexed = stats.documents_indexed + 1,
                        !.last_document_time = stats.last_document_time + 1]]

\* index_record putting the pair back on the queue after a conflict too
index_record_requeue_on_conflict(queue, stats, id_, record, outcome) ==
    CASE outcome = "conflict" ->
            [queue |-> Append(queue, <<id_, record>>),
             stats |-> [stats EXCEPT !.duplicates_skipped = stats.duplicates_skipped + 1]]
      [] outcome \in {"error", "error-stored"} ->
            [queue |-> Append(queue, <<id_, record>>),
             stats |-> [stats EXCEPT !.documents_errored = stats.documents_errored + 1]]
      [] outcome = "created" ->
            [queue |-> queue,
             stats |-> [stats EXCEPT
                           !.documents_indexed = stats.documents_indexed + 1,
                           !.last_document_time = stats.last_document_time + 1]]

\* ShipperStats and the record queue after index_record(id_, record) with
\* this outcome of create
index_record(queue, stats, id_, record, outcome) ==
    CASE outcome = "conflict" ->
            [queue |-> queue,
             stats |-> [stats EXCEPT !.duplicates_skipped = stats.duplicates_skipped + 1]]
      [] outcome \in {"error", "error-stored"} ->
            [queue |-> Append(queue, <<id_, record>>),
             stats |-> [stats EXCEPT !.documents_errored = stats.documents_errored + 1]]
      [] outcome = "created" ->
            [queue |-> queue,
             stats |-> [stats EXCEPT
                           !.documents_indexed = stats.documents_indexed + 1,
                           !.last_document_time = stats.last_document_time + 1]]

\* ElasticsearchShipper.run: record_queue.get() and index_record(*record)
ShipRecord ==
    /\ shipper_pc = "run"
    /\ record_queue # <<>>
    /\ LET id_ == Head(record_queue)[1]
           record == Head(record_queue)[2]
       IN IF FigureIndexRaises(record)
          THEN \* the exception leaves index_record and run
               /\ shipper_pc' = "dead"
               /\ record_queue' = Tail(record_queue)
               /\ attempts' = Append(attempts,
                                  [id |-> id_, record |-> record, outcome |-> "raised"])
               /\ UNCHANGED <<shipper_stats, es_docs, index_errors>>
          ELSE \E outcome \in CreateOutcomes(figure_index(record), id_) :
               LET after == index_record(Tail(record_queue), shipper_stats,
                                         id_, record, outcome)
               IN /\ record_queue' = after.queue
                  /\ shipper_stats' = after.stats
                  /\ es_docs' = IF outcome \in {"created", "error-stored"}
                                THEN es_docs \cup {EsDoc(figure_index(record), id_, record)}
                                ELSE es_docs
                  /\ index_errors' = IF outcome \in {"error", "error-stored"}
                                     THEN index_errors + 1 ELSE index_errors
                  /\ attempts' = Append(attempts,
                                     [id |-> id_, record |-> record, outcome |-> outcome])
                  /\ UNCHANGED shipper_pc
    /\ UNCHANGED <<aux_vars, fetcher_vars, parser_vars, to_do, done, fromisoformat_accepts_z>>

(***************************************************************************)
(* The parser and the shipper, with the environment handing batches in     *)
(***************************************************************************)
\* the parser has taken no batch yet
HistoryInit ==
    /\ batch_no = 0
    /\ emitted = <<>>
    /\ errored = <<>>
    /\ taken = {}

\* no thread is inside a stats object
StatsIdle ==
    /\ locks = <<>>
    /\ threads = <<>>
    /\ observed = <<>>

\* no function has been applied to a drawn input
PureIdle ==
    /\ pure_in = <<>>
    /\ pure_out = <<>>

AuxIdle == StatsIdle /\ PureIdle

\* the workers and the queues as main.py constructs them
WorkersInit ==
    /\ healthy = TRUE
    /\ fetcher_pc = "prime"
    /\ prime_i = 0
    /\ to_do = <<>>
    /\ done = <<>>
    /\ record_queue = <<>>
    /\ parser_pc = "get"
    /\ name = NoName
    /\ lines = <<>>
    /\ line_no = 0
    /\ parser_stats = ParserStatsInit
    /\ shipper_pc = "run"
    /\ shipper_stats = ShipperStatsInit
    /\ es_docs = {}
    /\ claimed = <<>>
    /\ index_errors = 0
    /\ attempts = <<>>
    /\ storage_errors = 0
    /\ uploads = 0
    /\ notified = {}
    /\ last_storage_op = [op |-> "none", ok |-> TRUE]
    /\ last_finalize = "none"
    /\ HistoryInit

Init ==
    /\ WorkersInit
    /\ AuxIdle
    /\ bucket = <<>>
    /\ fromisoformat_accepts_z \in BOOLEAN

Next ==
    \/ \E base \in BaseSet : PutBatch(base)
    \/ ParserGet
    \/ ParseLine
    \/ ParserFinish
    \/ ShipRecord

Spec == Init /\ [][Next]_vars

(***************************************************************************)
(* S3LogFetcher                                                            *)
(***************************************************************************)
\* str.startswith
StartsWith(logname, prefix) ==
    /\ Len(logname) >= Len(prefix)
    /\ SubSeq(logname, 1, Len(prefix)) = prefix

\* replace_prefix: ValueError unless logname starts with old_prefix
replace_prefix(logname, old_prefix, new_prefix) ==
    IF StartsWith(logname, old_prefix)
    THEN [raised |-> FALSE,
          value |-> new_prefix \o SubSeq(logname, Len(old_prefix) + 1, Len(logname))]
    ELSE [raised |-> TRUE, value |-> NoName]

\* S3LogFetcher.processing_name_from_unprocessed_name
processing_name_from_unprocessed_name(unprocessed_name) ==
    replace_prefix(unprocessed_name, unprocessed_prefix, processed_prefix)

\* S3LogFetcher.processed_name_from_processing_name
processed_name_from_processing_name(processing_name) ==
    replace_prefix(processing_name, processing_prefix, processed_prefix)

\* the outcome of a storage call, as last_storage_op records it
Op(op, ok) == [op |-> op, ok |-> ok]

\* the bucket with the object of key from_ copied to key to
CopyObject(b, from_, to) ==
    [key \in DOMAIN b \cup {to} |-> IF key = to THEN b[from_] ELSE b[key]]

\* the bucket without key
DeleteObject(b, key) == [k \in DOMAIN b \ {key} |-> b[k]]

\* move_object deleting the source before it copies it
move_object_delete_first(b, from_, to, fail) ==
    IF fail = "delete" \/ from_ \notin DOMAIN b
    THEN [raised |-> TRUE, bucket |-> b, last |-> Op("delete", FALSE)]
    ELSE IF fail = "copy"
    THEN [raised |-> TRUE, bucket |-> DeleteObject(b, from_),
          last |-> Op("copy", FALSE)]
    ELSE [raised |-> FALSE, bucket |-> DeleteObject(CopyObject(b, from_, to), from_),
          last |-> Op("delete", TRUE)]

\* S3LogFetcher.move_object: copy, then delete; fail names the call that
\* raises ("none" when the storage does not fail); copying a missing key
\* raises too
move_object(b, from_, to, fail) ==
    IF fail = "copy" \/ from_ \notin DOMAIN b
    THEN [raised |-> TRUE, bucket |-> b, last |-> Op("copy", FALSE)]
    ELSE IF fail = "delete"
    THEN [raised |-> TRUE, bucket |-> CopyObject(b, from_, to),
          last |-> Op("delete", FALSE)]
    ELSE [raised |-> FALSE, bucket |-> DeleteObject(CopyObject(b, from_, to), from_),
          last |-> Op("delete", TRUE)]

\* S3LogFetcher.mark_log_processed; last is the storage call made last, or
\* prev when none was made
mark_log_processed(b, logname, fail, prev) ==
    LET processed_name == processed_name_from_processing_name(logname)
        moved == move_object(b, logname, processed_name.value, fail)
    IN IF processed_name.raised
       THEN [raised |-> TRUE, value |-> NoName, bucket |-> b, last |-> prev]
       ELSE [raised |-> moved.raised, value |-> processed_name.value,
             bucket |-> moved.bucket, last |-> moved.last]

\* mark_log_processing returning the name it moved the object to
mark_log_processing_returns_name(b, logname, fail, prev) ==
    LET processing_name == processing_name_from_unprocessed_name(logname)
        moved == move_object(b, logname, processing_name.value, fail)
    IN IF processing_name.raised
       THEN [raised |-> TRUE, value |-> NoName, bucket |-> b, last |-> prev]
       ELSE [raised |-> moved.raised, value |-> processing_name.value,
             bucket |-> moved.bucket, last |-> moved.last]

\* mark_log_processing moving the object to the processing prefix and
\* returning its name there
mark_log_processing_to_processing(b, logname, fail, prev) ==
    LET processing_name == replace_prefix(logname, unprocessed_prefix, processing_prefix)
        moved == move_object(b, logname, processing_name.value, fail)
    IN IF processing_name.raised
       THEN [raised |-> TRUE, value |-> NoName, bucket |-> b, last |-> prev]
       ELSE [raised |-> moved.raised, value |-> processing_name.value,
             bucket |-> moved.bucket, last |-> moved.last]

\* S3LogFetcher.mark_log_processing: after the move, "return processed_name"
\* reads a name that is not defined and raises NameError
mark_log_processing(b, logname, fail, prev) ==
    LET processing_name == processing_name_from_unprocessed_name(logname)
        moved == move_object(b, logname, processing_name.value, fail)
    IN IF processing_name.raised
       THEN [raised |-> TRUE, value |-> NoName, bucket |-> b, last |-> prev]
       ELSE [raised |-> TRUE, value |-> NoName, bucket |-> moved.bucket,
             last |-> moved.last]

\* list_objects_v2(MaxKeys=1, Prefix=unprocessed_prefix)["Contents"]: the
\* first key under the prefix, in the order of the listing
ListObjects(b) ==
    LET found == {i \in 1..Len(Bases) : Key(unprocessed_prefix, Bases[i]) \in DOMAIN b}
    IN IF found = {}
       THEN <<>>
       ELSE <<Key(unprocessed_prefix,
                  Bases[CHOOSE i \in found : \A j \in found : i <= j])>>

\* S3LogFetcher.get_next_log after the listing succeeded
ClaimListed(b, fail) ==
    IF ListObjects(b) = <<>>
    THEN [raised |-> FALSE, value |-> NoName, bucket |-> b, healthy |-> TRUE,
          last |-> Op("list", TRUE)]
    ELSE LET marked == mark_log_processing(b, ListObjects(b)[1], fail, Op("list", TRUE))
         IN IF marked.raised
            THEN [raised |-> TRUE, value |-> NoName, bucket |-> marked.bucket,
                  healthy |-> TRUE, last |-> marked.last]
            ELSE IF fail = "download" \/ marked.value \notin DOMAIN marked.bucket
            THEN [raised |-> TRUE, value |-> NoName, bucket |-> marked.bucket,
                  healthy |-> TRUE, last |-> Op("download", FALSE)]
            ELSE [raised |-> FALSE,
                  value |-> <<marked.value, Content(marked.bucket[marked.value])>>,
                  bucket |-> marked.bucket, healthy |-> TRUE,
                  last |-> Op("download", TRUE)]

\* get_next_log without the try around the listing
get_next_log_unguarded(b, fail) ==
    IF fail = "list"
    THEN [raised |-> TRUE, value |-> NoName, bucket |-> b, healthy |-> healthy,
          last |-> Op("list", FALSE)]
    ELSE ClaimListed(b, fail)

\* S3LogFetcher.get_next_log; raised: an exception leaves get_next_log;
\* value: what it returns otherwise, None or (processing_name, strings)
get_next_log(b, fail) ==
    IF fail = "list"
    THEN [raised |-> FALSE, value |-> NoName, bucket |-> b, healthy |-> FALSE,
          last |-> Op("list", FALSE)]
    ELSE ClaimListed(b, fail)

\* the storage calls that can raise in this step
Failures(calls) == IF storage_errors < MaxStorageErrors THEN calls \cup {"none"} ELSE {"none"}

\* run: one call of get_next_log and the put that follows it
GetAndPut(next_pc) ==
    \E fail \in Failures({"list", "copy", "delete", "download"}) :
        LET got == get_next_log(bucket, fail)
        IN /\ bucket' = got.bucket
           /\ healthy' = got.healthy
           /\ last_storage_op' = got.last
           /\ storage_errors' = IF got.last = Op(fail, FALSE) THEN storage_errors + 1
                                ELSE storage_errors
           /\ taken' = taken \cup
                  {base \in BaseSet :
                      /\ Key(unprocessed_prefix, base) \in DOMAIN bucket
                      /\ Key(unprocessed_prefix, base) \notin DOMAIN got.bucket}
           /\ IF got.raised
              THEN fetcher_pc' = "dead" /\ UNCHANGED to_do
              ELSE /\ fetcher_pc' = next_pc
                   /\ to_do' = IF got.value = NoName THEN to_do
                               ELSE Append(to_do, got.value)

\* S3LogFetcher.run: one iteration of the priming loop
FetcherPrime ==
    /\ fetcher_pc = "prime"
    /\ prime_i < start_queue_size
    /\ GetAndPut(IF prime_i + 1 = start_queue_size THEN "wait" ELSE "prime")
    /\ prime_i' = prime_i + 1
    /\ UNCHANGED <<aux_vars, parser_vars, shipper_vars, done, record_queue, uploads, notified,
                   last_finalize>>

\* S3LogFetcher.run: done.get() and the try around mark_log_processed
FetcherFinalize ==
    /\ fetcher_pc = "wait"
    /\ done # <<>>
    /\ \E fail \in Failures({"copy", "delete"}) :
        LET finished_log == Head(done)
            marked == mark_log_processed(bucket, finished_log, fail, last_storage_op)
        IN /\ bucket' = marked.bucket
           /\ last_storage_op' = marked.last
           /\ storage_errors' = IF marked.last = Op(fail, FALSE)
                                THEN storage_errors + 1 ELSE storage_errors
           /\ IF marked.raised
              THEN /\ done' = Append(Tail(done), finished_log)
                   /\ healthy' = FALSE
                   /\ last_finalize' = "raised"
              ELSE /\ done' = Tail(done)
                   /\ healthy' = TRUE
                   /\ last_finalize' = "ok"
    /\ fetcher_pc' = "replenish"
    /\ UNCHANGED <<aux_vars, parser_vars, shipper_vars, to_do, record_queue, prime_i, uploads,
                   notified, taken>>

\* S3LogFetcher.run: the get_next_log and put that end an iteration
FetcherReplenish ==
    /\ fetcher_pc = "replenish"
    /\ GetAndPut("wait")
    /\ UNCHANGED <<aux_vars, parser_vars, shipper_vars, done, record_queue, prime_i, uploads,
                   notified, last_finalize>>

\* the log objects of the fetcher's bucket
FetcherBases == {Bases[i] : i \in 1..MaxObjects}

\* some prefix of the bucket holds this log object
InBucket(b, base) ==
    \E prefix \in {unprocessed_prefix, processing_prefix, processed_prefix} :
        Key(prefix, base) \in DOMAIN b

\* the environment: a new log object appears under the unprocessed prefix
Upload(base) ==
    /\ uploads < MaxUploads
    /\ ~InBucket(bucket, base)
    /\ bucket' = bucket @@ (Key(unprocessed_prefix, base) :> base)
    /\ uploads' = uploads + 1
    /\ UNCHANGED <<aux_vars, parser_vars, shipper_vars, to_do, done, record_queue, healthy,
                   fetcher_pc, prime_i, storage_errors, notified, last_storage_op,
                   last_finalize, taken>>

\* the environment in the place of the parser: the name of an object under
\* the processing prefix is put on the done queue
Notify(base) ==
    /\ Cardinality(notified) < MaxNotifications
    /\ Key(processing_prefix, base) \in DOMAIN bucket
    /\ Key(processing_prefix, base) \notin notified
    /\ done' = Append(done, Key(processing_prefix, base))
    /\ notified' = notified \cup {Key(processing_prefix, base)}
    /\ UNCHANGED <<aux_vars, parser_vars, shipper_vars, to_do, record_queue, bucket, healthy,
                   fetcher_pc, prime_i, storage_errors, uploads, last_storage_op,
                   last_finalize, taken>>

\* where a log object is when the fetcher starts
Placements == {"absent", "unprocessed", "processing"}

BucketOf(placement) ==
    LET keys == {Key(unprocessed_prefix, base) :
                    base \in {x \in FetcherBases : placement[x] = "unprocessed"}}
                \cup {Key(processing_prefix, base) :
                    base \in {x \in FetcherBases : placement[x] = "processing"}}
    IN [key \in keys |-> key[Len(key)]]

FetcherInit ==
    /\ WorkersInit
    /\ AuxIdle
    /\ \E placement \in [FetcherBases -> Placements] : bucket = BucketOf(placement)
    /\ fromisoformat_accepts_z = TRUE

FetcherNext ==
    \/ FetcherPrime
    \/ FetcherFinalize
    \/ FetcherReplenish
    \/ \E base \in FetcherBases : Upload(base)
    \/ \E base \in FetcherBases : Notify(base)

FetcherSpec == FetcherInit /\ [][FetcherNext]_vars

(***************************************************************************)
(* Fairness: the fetcher thread, when it can take a step, eventually takes *)
(* it.  The bound on the failures makes storage calls eventually succeed.  *)
(***************************************************************************)
FairFetcherSpec ==
    /\ FetcherSpec
    /\ WF_vars(FetcherPrime)
    /\ WF_vars(FetcherFinalize)
    /\ WF_vars(FetcherReplenish)

(***************************************************************************)
(* Properties of the shipper                                               *)
(***************************************************************************)
\* the calls of index_record so far are two calls with the same pair, with
\* these outcomes of create
TwoAttempts(first, second) ==
    /\ Len(attempts) = 2
    /\ attempts[1].id = attempts[2].id
    /\ attempts[1].record = attempts[2].record
    /\ attempts[1].outcome \in first
    /\ attempts[2].outcome \in second

\* the documents of the search engine with this id
DocsWithId(id) == {d \in es_docs : d.id = id}

\* the pairs the parser has put on the record queue are lines_processed
\* many; failed of the calls of index_record did not consume theirs
NotPutBack == Len(record_queue) + Len(attempts) = parser_stats.lines_processed

\* C1: when index_record has handled the same (identifier, document) twice,
\* create succeeding the first time and raising a conflict the second time,
\* the search engine holds exactly one document with that identifier,
\* documents_indexed is 1, duplicates_skipped is 1, documents_errored is 0
\* and no pair was put back on the record queue.
C1_IdempotentIndexing ==
    TwoAttempts({"created"}, {"conflict"}) =>
        /\ Cardinality(DocsWithId(attempts[1].id)) = 1
        /\ shipper_stats.documents_indexed = 1
        /\ shipper_stats.duplicates_skipped = 1
        /\ shipper_stats.documents_errored = 0
        /\ NotPutBack

C1_Witness ==
    /\ TwoAttempts({"created"}, {"conflict"})
    /\ shipper_stats.duplicates_skipped = 1
    /\ record_queue = <<>>

\* C2: when create fails with a non-conflict error for a record and succeeds
\* the next time the shipper dequeues it, documents_errored is 1,
\* documents_indexed is 1, duplicates_skipped is 0, the document is in the
\* search engine exactly once and the record is no longer on the queue: of
\* the pairs the parser has put, one has been consumed.
C2_RetryScenario ==
    TwoAttempts({"error", "error-stored"}, {"created"}) =>
        /\ shipper_stats.documents_errored = 1
        /\ shipper_stats.documents_indexed = 1
        /\ shipper_stats.duplicates_skipped = 0
        /\ Cardinality(DocsWithId(attempts[1].id)) = 1
        /\ Len(record_queue) + 1 = parser_stats.lines_processed

C2_Witness ==
    /\ TwoAttempts({"error"}, {"created"})
    /\ shipper_stats.documents_errored = 1
    /\ record_queue = <<>>

\* index_record was called in this step, and create was reached
Attempted == attempts' # attempts /\ attempts'[Len(attempts')].outcome # "raised"

LastOutcome == attempts'[Len(attempts')].outcome

\* at most one document per identifier in the whole search engine
OneDocumentPerId == \A d1, d2 \in es_docs : d1.id = d2.id => d1 = d2

\* at most one document per identifier in each index
OneDocumentPerIndexAndId ==
    \A d1, d2 \in es_docs : (d1.index = d2.index /\ d1.id = d2.id) => d1 = d2

\* C3 as stated: at most one document per identifier, and every redelivery of
\* an identifier that is already indexed increments duplicates_skipped and
\* adds no document.
C3_Original ==
    /\ []OneDocumentPerId
    /\ [][(Attempted /\ DocsWithId(Head(record_queue)[1]) # {}) =>
            /\ es_docs' = es_docs
            /\ shipper_stats'.duplicates_skipped = shipper_stats.duplicates_skipped + 1]_vars

\* C3, amended: each index holds at most one document per identifier; a
\* redelivery of an identifier that is already in the index of its document
\* adds no document; it increments duplicates_skipped and nothing else when
\* create raises a conflict, and otherwise increments documents_errored and
\* puts the pair back.
C3_ExactlyOnceVisibility ==
    /\ []OneDocumentPerIndexAndId
    /\ [][(Attempted /\ Conflict(figure_index(Head(record_queue)[2]),
                                 Head(record_queue)[1])) =>
            /\ es_docs' = es_docs
            /\ \/ /\ LastOutcome = "conflict"
                  /\ shipper_stats' =
                        [shipper_stats EXCEPT
                            !.duplicates_skipped = shipper_stats.duplicates_skipped + 1]
                  /\ record_queue' = Tail(record_queue)
               \/ /\ LastOutcome = "error"
                  /\ shipper_stats' =
                        [shipper_stats EXCEPT
                            !.documents_errored = shipper_stats.documents_errored + 1]
                  /\ record_queue' = Append(Tail(record_queue), Head(record_queue))]_vars

\* the same log object was parsed twice, a redelivery failed and was retried,
\* and the duplicates were skipped
C3_Witness ==
    /\ Len(claimed) = 2
    /\ claimed[1] = claimed[2]
    /\ \E i \in 1..Len(attempts) : \E j \in 1..Len(attempts) :
          /\ i < j
          /\ attempts[i].id = attempts[j].id
          /\ attempts[i].outcome = "error"
          /\ attempts[j].outcome = "conflict"
    /\ shipper_stats.duplicates_skipped >= 1
    /\ OneDocumentPerIndexAndId
    /\ es_docs # {}

\* the document of this line of this log object
DocumentOf(base, line) == BuildDocument(Key(processing_prefix, base), Strip(line))

\* the line matches the ALB or the ELB expression
Matches(line) == MatchLine(Strip(line)).groups # NoMatch

\* the line is visible in the search engine under its identifier
Indexed(base, line) ==
    /\ ~GenerateIdRaises(DocumentOf(base, line))
    /\ DocsWithId(generate_id(DocumentOf(base, line))) # {}

\* neither the parser nor the shipper can take a step: each is blocked on its
\* empty queue or has terminated
PipelineQuiescent ==
    /\ parser_pc = "dead" \/ (parser_pc = "get" /\ to_do = <<>>)
    /\ shipper_pc = "dead" \/ record_queue = <<>>

\* C4: every line of a claimed log object that matches the ALB or the ELB
\* expression is eventually indexed: once the parser and the shipper have
\* nothing left to do, no such line is missing from the search engine.
C4_AtLeastOnce ==
    PipelineQuiescent =>
        \A i \in 1..Len(claimed) : \A n \in 1..Len(Content(claimed[i])) :
            Matches(Content(claimed[i])[n])
                => Indexed(claimed[i], Content(claimed[i])[n])

(***************************************************************************)
(* Properties of the fetcher                                               *)
(***************************************************************************)
\* C5: no object is under the processed prefix before its done notification
\* was sent.
C5_FinalizeOrdering ==
    \A base \in FetcherBases :
        Key(processed_prefix, base) \in DOMAIN bucket
            => Key(processing_prefix, base) \in notified

\* the fetcher took a step
FetcherStepped == fetcher_pc' # fetcher_pc \/ prime_i' # prime_i

\* C6: when mark_log_processed raises, the fetcher puts the name back on the
\* done queue and sets healthy to false; and every name put on the done queue
\* is eventually renamed from the processing to the processed prefix.
C6_FinalizeRetry ==
    /\ [][(fetcher_pc = "wait" /\ FetcherStepped /\ last_finalize' = "raised") =>
            /\ healthy' = FALSE
            /\ done' = Append(Tail(done), Head(done))]_vars
    /\ \A base \in FetcherBases :
          (Key(processing_prefix, base) \in notified)
          ~> /\ Key(processed_prefix, base) \in DOMAIN bucket
             /\ Key(processing_prefix, base) \notin DOMAIN bucket

\* C7: healthy is the outcome of the last storage operation of the fetcher,
\* and it is false when the fetcher waits on the done queue after a finalize
\* attempt that failed.
C7_HealthReflectsLastOperation ==
    /\ last_storage_op.op # "none" => healthy = last_storage_op.ok
    /\ (fetcher_pc = "wait" /\ last_finalize = "raised") => ~healthy

\* C8: when the listing raises inside get_next_log, healthy becomes false, no
\* object is moved, nothing is put on the to-do queue and the run loop goes on
\* to its next step.
C8_ListingFailureSwallowed ==
    [][(fetcher_pc \in {"prime", "replenish"} /\ FetcherStepped
        /\ last_storage_op' = Op("list", FALSE)) =>
            /\ healthy' = FALSE
            /\ bucket' = bucket
            /\ to_do' = to_do
            /\ fetcher_pc' \in {"prime", "wait"}]_vars

\* the listing failed in the loop, after a finalize, and the fetcher waits on
\* the done queue again
C8_Witness ==
    /\ last_storage_op = Op("list", FALSE)
    /\ last_finalize # "none"
    /\ fetcher_pc = "wait"
    /\ healthy = FALSE

\* C9: none of the fetcher, parser and shipper loops terminates.
C9_NoWorkerTerminates ==
    /\ fetcher_pc # "dead"
    /\ parser_pc # "dead"
    /\ shipper_pc # "dead"

\* C10: when the fetcher waits on a done queue on which nothing was put and an
\* object has appeared under the unprocessed prefix, the fetcher eventually
\* claims it and puts it on the to-do queue.
C10_BoundedWait ==
    \A base \in FetcherBases :
        (/\ fetcher_pc = "wait"
         /\ notified = {}
         /\ uploads > 0
         /\ Key(unprocessed_prefix, base) \in DOMAIN bucket)
        ~> (\E i \in 1..Len(to_do) : to_do[i][1] = Key(processing_prefix, base))

(***************************************************************************)
(* The parser, batch by batch                                              *)
(***************************************************************************)
\* the lines of the k-th batch the parser has taken: the to-do queue is
\* first-in-first-out
BatchLines(k) == Content(claimed[k])

\* neither expression matches the stripped line
Unmatched(line) == MatchLine(Strip(line)).groups = NoMatch

HasUnmatched(ls) == \E i \in 1..Len(ls) : Unmatched(ls[i])

FirstUnmatched(ls) ==
    CHOOSE i \in 1..Len(ls) :
        Unmatched(ls[i]) /\ \A j \in 1..(i - 1) : ~Unmatched(ls[j])

\* parse_alb_logs has returned from the k-th batch
Returned(k) == k < batch_no \/ (k = batch_no /\ parser_pc \in {"finish", "get"})

EmittedOf(k) == SelectSeq(emitted, LAMBDA e : e.batch = k)
ErroredOf(k) == SelectSeq(errored, LAMBDA e : e.batch = k)

GroupsOf(text) ==
    IF ALB_LOG_LINE_REGEX(text) # NoMatch
    THEN ALB_LOG_LINE_REGEX(text)
    ELSE ELB_LOG_LINE_REGEX(text)

AlbEmitted == {n \in 1..Len(emitted) : ALB_LOG_LINE_REGEX(emitted[n].text) # NoMatch}

\* C13 as stated: the identifier of every record put for an ALB line is the
\* trace id of the line, as it is in the line.
C13_Original ==
    \A n \in AlbEmitted :
        emitted[n].pair[1] = Plain(<<ALB_LOG_LINE_REGEX(emitted[n].text).trace_id>>)

\* C13, amended: the identifier of every record put for an ALB line is the
\* SHA-256 digest of the trace id of the line.
C13_TraceIdDigest ==
    \A n \in AlbEmitted :
        emitted[n].pair[1] = sha256(<<ALB_LOG_LINE_REGEX(emitted[n].text).trace_id>>)

\* a record was put for an ALB line
C13_Witness == AlbEmitted # {}

(***************************************************************************)
(* generate_id on pairs of ELB documents                                   *)
(***************************************************************************)
\* the matches of ELB lines that differ in the components of the identifier
\* and in another field; sent_bytes "3x6" makes the coercion fail
ElbSamples ==
    {[ElbGroups EXCEPT !.elb = e, !.client_ip = ip, !.client_port = port,
                       !.time = t, !.received_bytes = rb, !.sent_bytes = sb,
                       !.user_agent = ua] :
        e \in {"lb-1", "lb-2"}, ip \in {"10.0.0.1", "10.0.0.3"},
        port \in {"2817", "2818"},
        t \in {"2018-07-02T22:23:00.186641Z", "2018-07-02T22:23:00.186999Z",
               "2018-07-03T00:00:01.000000Z"},
        rb \in {"34", "366"}, sb \in {"366", "3x6"}, ua \in {"curl/7.46.0", "-"}}

\* the documents parse_alb_logs builds from them, for two source files
ElbDocuments ==
    {DocumentFromMatch([log_type |-> "elb", groups |-> g], <<"elb-sample">>,
                       Key(processing_prefix, base)) :
        g \in ElbSamples, base \in {"a.log", "b.log"}}

IdInit ==
    /\ WorkersInit
    /\ StatsIdle
    /\ bucket = <<>>
    /\ fromisoformat_accepts_z = TRUE
    /\ pure_in \in {[fn |-> "generate_id", args |-> <<d1, d2>>] :
                        d1 \in ElbDocuments, d2 \in ElbDocuments}
    /\ pure_out = <<>>

\* generate_id applied to both documents
ApplyGenerateId ==
    /\ pure_in # <<>>
    /\ pure_in.fn = "generate_id"
    /\ pure_out = <<>>
    /\ pure_out' = <<generate_id(pure_in.args[1]), generate_id(pure_in.args[2])>>
    /\ UNCHANGED <<fetcher_vars, parser_vars, shipper_vars, to_do, done, record_queue,
                   locks, threads, observed, pure_in>>

IdNext == ApplyGenerateId

IdSpec == IdInit /\ [][IdNext]_vars

\* the five components of the identifier of an ELB document, as the document
\* holds them
Components(doc) ==
    <<doc["@elb"].d["elb"].d["id"], doc["@elb"].d["client"].d["ip"],
      doc["@elb"].d["client"].d["port"], doc["@timestamp"],
      doc["@elb"].d["received_bytes"]>>

Differing(doc1, doc2) == {i \in 1..5 : Components(doc1)[i] # Components(doc2)[i]}

IdsComputed == pure_in # <<>> /\ pure_in.fn = "generate_id" /\ pure_out # <<>>

\* C14: two ELB documents with the same load balancer id, client ip, client
\* port, timestamp and received bytes get the same identifier, whatever their
\* other fields and their source file, and two ELB documents that differ in
\* one of the five get different identifiers.
C14_ElbIdentifier ==
    IdsComputed =>
        /\ Differing(pure_in.args[1], pure_in.args[2]) = {}
              => pure_out[1] = pure_out[2]
        /\ Cardinality(Differing(pure_in.args[1], pure_in.args[2])) = 1
              => pure_out[1] # pure_out[2]

\* the identifiers of two documents that agree on the five components and
\* differ in their source file and in the user agent have been computed
C14_Witness ==
    /\ IdsComputed
    /\ Differing(pure_in.args[1], pure_in.args[2]) = {}
    /\ pure_in.args[1]["path"] # pure_in.args[2]["path"]
    /\ pure_in.args[1]["@elb"].d["request"] # pure_in.args[2]["@elb"].d["request"]
    /\ pure_out[1] = pure_out[2]

(***************************************************************************)
(* remove_empty_fields on nested dicts                                     *)
(***************************************************************************)
\* values that are not dicts: the ones the function pops, the falsy ones it
\* keeps, and a list that is not empty
Leaves ==
    {None, EmptyList} \cup Falsy \cup {PyInt("1"), [k |-> "list", l |-> <<EmptyDict>>]}

\* the dicts with dicts nested up to n deep under "foo", and a sibling "bar"
RECURSIVE Mappings(_)
Mappings(n) ==
    LET values == Leaves \cup (IF n = 0 THEN {} ELSE {Dict(m) : m \in Mappings(n - 1)})
        foo == {<<>>} \cup {("foo" :> v) : v \in values}
        bar == {<<>>} \cup {("bar" :> v) : v \in {None, PyInt("1")}}
    IN {f @@ b : f \in foo, b \in bar}

PruneInit ==
    /\ WorkersInit
    /\ StatsIdle
    /\ bucket = <<>>
    /\ fromisoformat_accepts_z = TRUE
    /\ pure_in \in {[fn |-> "remove_empty_fields", args |-> <<m>>] :
                        m \in Mappings(MaxDepth)}
    /\ pure_out = <<>>

\* remove_empty_fields applied to the dict
ApplyRemoveEmptyFields ==
    /\ pure_in # <<>>
    /\ pure_in.fn = "remove_empty_fields"
    /\ pure_out = <<>>
    /\ pure_out' = <<remove_empty_fields(pure_in.args[1])>>
    /\ UNCHANGED <<fetcher_vars, parser_vars, shipper_vars, to_do, done, record_queue,
                   locks, threads, observed, pure_in>>

PruneNext == ApplyRemoveEmptyFields

PruneSpec == PruneInit /\ [][PruneNext]_vars

\* no value of the dict, at any depth, is None, {} or []
RECURSIVE Clean(_)
Clean(d) ==
    \A key \in DOMAIN d :
        /\ d[key] \notin {None, EmptyDict, EmptyList}
        /\ d[key].k = "dict" => Clean(d[key].d)

\* the dict holds, at any depth, nothing but None, [] and dicts of such
RECURSIVE NothingToKeep(_)
NothingToKeep(d) ==
    \A key \in DOMAIN d :
        IF d[key].k = "dict" THEN NothingToKeep(d[key].d)
        ELSE d[key] \in {None, EmptyList}

\* out has the keys of in whose value is neither None nor [] nor a dict with
\* nothing to keep, with the value unchanged, and no other key
RECURSIVE Keeps(_, _)
Keeps(in, out) ==
    /\ DOMAIN out \subseteq DOMAIN in
    /\ \A key \in DOMAIN in :
          IF in[key].k = "dict"
          THEN IF key \in DOMAIN out
               THEN out[key].k = "dict" /\ Keeps(in[key].d, out[key].d)
               ELSE NothingToKeep(in[key].d)
          ELSE IF in[key] \in {None, EmptyList}
               THEN key \notin DOMAIN out
               ELSE key \in DOMAIN out /\ out[key] = in[key]

Pruned == pure_in # <<>> /\ pure_in.fn = "remove_empty_fields" /\ pure_out # <<>>

\* C15: the result of remove_empty_fields has, at no depth, a value that is
\* None, an empty dict or an empty list, and it keeps every other key of the
\* input with its value, False, 0 and "" included.
C15_RecursivePruning ==
    Pruned => /\ Clean(pure_out[1])
              /\ Keeps(pure_in.args[1], pure_out[1])

\* a dict that was not empty became empty and was popped from the dict it
\* was nested in, and its sibling was kept
C15_Witness ==
    /\ Pruned
    /\ "foo" \in DOMAIN pure_out[1]
    /\ pure_out[1]["foo"] = Dict(("bar" :> PyInt("1")))
    /\ "foo" \in DOMAIN pure_in.args[1]["foo"].d
    /\ pure_in.args[1]["foo"].d["foo"].k = "dict"
    /\ pure_in.args[1]["foo"].d["foo"].d # <<>>

(***************************************************************************)
(* Coercion, as the records show it                                        *)
(***************************************************************************)
\* the values of a dict that are not dicts, at any depth
RECURSIVE LeavesOf(_)
LeavesOf(d) ==
    UNION {IF d[key].k = "dict" THEN LeavesOf(d[key].d) ELSE {d[key]} :
               key \in DOMAIN d}

\* the fields of a document that come from the groups of the match
Body(doc) == [key \in DOMAIN doc \cap {"@alb", "@elb", "@timestamp"} |-> doc[key]]

\* a group of the type table holds content its converter does not accept
BadContent(groups) ==
    \E field \in DOMAIN groups \cap DOMAIN ALB_LOGS_FIELD_TYPES :
        /\ groups[field] \notin {"-", ""}
        /\ ConverterRaises(ALB_LOGS_FIELD_TYPES[field], groups[field])

MatchedLine(k, j) == ~Unmatched(BatchLines(k)[j])

\* the groups of the j-th line of the k-th batch
LineGroups(k, j) == GroupsOf(Strip(BatchLines(k)[j]))

RecordOf(k, j) == \E n \in 1..Len(emitted) : emitted[n].batch = k /\ emitted[n].line = j

CountedErrored(k, j) ==
    \E n \in 1..Len(errored) : errored[n].batch = k /\ errored[n].line = j

\* the loop of parse_alb_logs has finished its iteration for line j of batch k
Passed(k, j) ==
    /\ \A i \in 1..(j - 1) : MatchedLine(k, i)
    /\ \/ k < batch_no
       \/ k = batch_no /\ (line_no > j \/ parser_pc \in {"finish", "get"})

\* a line whose coercion fails does not end the batch: it has a record, and
\* the line after it is handled when parse_alb_logs has returned
CoercionFailureSurvived ==
    \A k \in 1..batch_no :
        \A j \in 1..Len(BatchLines(k)) :
            (MatchedLine(k, j) /\ BadContent(LineGroups(k, j)) /\ Passed(k, j)) =>
                /\ RecordOf(k, j)
                /\ (Returned(k) /\ j < Len(BatchLines(k))) =>
                       (RecordOf(k, j + 1) \/ CountedErrored(k, j + 1))

\* C16 as stated: in the record of every matched line no field holds '-' or
\* '' (they are coerced to null and pruned), and a line with non-numeric
\* content in a numeric field does not end the batch.
C16_Original ==
    /\ \A n \in 1..Len(emitted) :
          LeavesOf(Body(emitted[n].pair[2])) \cap {None, Str("-"), Str("")} = {}
    /\ CoercionFailureSurvived

\* C16, amended: in the record of every matched line whose coercion succeeds
\* no field holds '-' or ''; a line with content its converter rejects does
\* not end the batch, and its record holds every group as the str matched,
\* '-' and '' included.
C16_Coercion ==
    /\ \A n \in 1..Len(emitted) :
          LET groups == GroupsOf(emitted[n].text)
              leaves == LeavesOf(Body(emitted[n].pair[2]))
          IN IF BadContent(groups)
             THEN /\ \A v \in leaves : v.k = "str"
                  /\ \A field \in {"elb", "client_ip", "received_bytes", "target_ip"} :
                        Str(groups[field]) \in leaves
             ELSE leaves \cap {None, Str("-"), Str("")} = {}
    /\ CoercionFailureSurvived

\* records were put for a line with '' in a field whose coercion succeeded and
\* for a line with '-' in a field whose coercion failed, and the line after
\* the latter was handled
C16_Witness ==
    /\ \E n \in 1..Len(emitted) :
          /\ ~BadContent(GroupsOf(emitted[n].text))
          /\ GroupsOf(emitted[n].text)["target_port"] = ""
    /\ \E n \in 1..Len(emitted) :
          /\ BadContent(GroupsOf(emitted[n].text))
          /\ GroupsOf(emitted[n].text)["ssl_cipher"] = "-"
          /\ Returned(emitted[n].batch)
          /\ CountedErrored(emitted[n].batch, emitted[n].line + 1)

(***************************************************************************)
(* The stats objects under concurrent use: the parser thread calls         *)
(* ParserStats, the shipper thread calls ShipperStats and the thread of    *)
(* the HTTP server reads both summaries in send_stats.  A call is a        *)
(* sequence of steps: the lock is taken, the attributes are read or        *)
(* written one by one, the lock is released.                               *)
(***************************************************************************)
StatsWorkers == {"parser", "shipper"}

\* the stats object a worker calls, and the one of that name
StatsOf(w) == IF w = "parser" THEN parser_stats ELSE shipper_stats

\* the attributes the increment_ methods add one to
Counters(w) ==
    IF w = "parser"
    THEN {"lines_processed", "lines_errored", "files_processed"}
    ELSE {"documents_indexed", "documents_errored", "duplicates_skipped"}

\* the attribute new_file_time / document_time sets
TimeAttr(w) == IF w = "parser" THEN "last_new_file_time" ELSE "last_document_time"

\* ParserStats.summary and ShipperStats.summary: the keys of the dict and the
\* attribute each one reads, in the order of the call
SummaryFields(obj) ==
    IF obj = "parser"
    THEN <<[key |-> "lines_processed", attr |-> "lines_processed"],
           [key |-> "lines_errored", attr |-> "lines_errored"],
           [key |-> "last_new_file_time", attr |-> "last_new_file_time"]>>
    ELSE <<[key |-> "documents_indexed", attr |-> "documents_indexed"],
           [key |-> "documents_errored", attr |-> "documents_errored"],
           [key |-> "duplicates_skipped", attr |-> "duplicates_skipped"],
           [key |-> "last_document_indexed_at", attr |-> "last_document_time"]>>

\* a lock that anyone can take at any time
LockFree_always(holder) == TRUE

\* threading.Lock: "with self.lock" goes on when no thread holds the lock
LockFree(holder) == holder = "free"

stats_frame ==
    <<fetcher_vars, to_do, done, record_queue, parser_pc, name, lines, line_no,
      claimed, batch_no, emitted, errored, shipper_pc, es_docs,
      fromisoformat_accepts_z, index_errors, attempts, pure_in, pure_out>>

StatsInit ==
    /\ WorkersInit
    /\ PureIdle
    /\ bucket = <<>>
    /\ fromisoformat_accepts_z = TRUE
    /\ locks = [parser |-> "free", shipper |-> "free"]
    /\ threads = [parser |-> [pc |-> "idle", op |-> "none", tmp |-> 0],
                  shipper |-> [pc |-> "idle", op |-> "none", tmp |-> 0],
                  status |-> [pc |-> "idle", obj |-> "none", i |-> 0,
                              summary |-> <<>>, parser |-> <<>>]]
    /\ observed = [calls |-> 0, now |-> DatetimeMin,
                   completed |-> [w \in StatsWorkers |-> [f \in Counters(w) |-> 0]],
                   seen |-> [parser |-> {ParserStatsInit}, shipper |-> {ShipperStatsInit}],
                   returned |-> {}, published |-> <<>>]

\* the stats objects after the object of w has become s
SetStats(w, s) ==
    /\ parser_stats' = IF w = "parser" THEN s ELSE parser_stats
    /\ shipper_stats' = IF w = "shipper" THEN s ELSE shipper_stats

\* a worker calls increment_<attr>, or new_file_time / document_time, which
\* reads the clock before it takes the lock
StatsCall(w, attr) ==
    /\ threads[w].pc = "idle"
    /\ observed.calls < MaxStatsCalls
    /\ threads' = [threads EXCEPT ![w] = [pc |-> "acquire", op |-> attr,
                                           tmp |-> IF attr = TimeAttr(w)
                                                   THEN observed.now + 1 ELSE 0]]
    /\ observed' = [observed EXCEPT !.calls = @ + 1,
                                    !.now = IF attr = TimeAttr(w) THEN @ + 1 ELSE @]
    /\ UNCHANGED <<stats_frame, parser_stats, shipper_stats, locks>>

\* with self.lock
StatsAcquire(w) ==
    /\ threads[w].pc = "acquire"
    /\ LockFree(locks[w])
    /\ locks' = [locks EXCEPT ![w] = w]
    /\ threads' = [threads EXCEPT ![w].pc = IF threads[w].op = TimeAttr(w)
                                             THEN "store" ELSE "load"]
    /\ UNCHANGED <<stats_frame, parser_stats, shipper_stats, observed>>

\* self._attr += 1: the read
StatsLoad(w) ==
    /\ threads[w].pc = "load"
    /\ threads' = [threads EXCEPT ![w].tmp = StatsOf(w)[threads[w].op] + 1,
                                  ![w].pc = "store"]
    /\ UNCHANGED <<stats_frame, parser_stats, shipper_stats, locks, observed>>

\* self._attr += 1: the write; self._last_..._time = new_time
StatsStore(w) ==
    /\ threads[w].pc = "store"
    /\ LET s == [StatsOf(w) EXCEPT ![threads[w].op] = threads[w].tmp]
       IN /\ SetStats(w, s)
          /\ observed' = [observed EXCEPT !.seen[w] = @ \cup {s}]
    /\ threads' = [threads EXCEPT ![w].pc = "release"]
    /\ UNCHANGED <<stats_frame, locks>>

\* the end of the with block: the call returns
StatsRelease(w) ==
    /\ threads[w].pc = "release"
    /\ locks' = [locks EXCEPT ![w] = "free"]
    /\ threads' = [threads EXCEPT ![w] = [pc |-> "idle", op |-> "none", tmp |-> 0]]
    /\ observed' = IF threads[w].op \in Counters(w)
                   THEN [observed EXCEPT !.completed[w][threads[w].op] = @ + 1]
                   ELSE observed
    /\ UNCHANGED <<stats_frame, parser_stats, shipper_stats>>

\* do_GET on /stats: send_stats starts with parser_stats.summary
StatusRequest ==
    /\ threads.status.pc = "idle"
    /\ observed.calls < MaxStatsCalls
    /\ threads' = [threads EXCEPT !.status = [pc |-> "acquire", obj |-> "parser",
                                              i |-> 1, summary |-> <<>>,
                                              parser |-> <<>>]]
    /\ observed' = [observed EXCEPT !.calls = @ + 1]
    /\ UNCHANGED <<stats_frame, parser_stats, shipper_stats, locks>>

\* summary: with self.lock
StatusAcquire ==
    /\ threads.status.pc = "acquire"
    /\ LockFree(locks[threads.status.obj])
    /\ locks' = [locks EXCEPT ![threads.status.obj] = "status"]
    /\ threads' = [threads EXCEPT !.status.pc = "read"]
    /\ UNCHANGED <<stats_frame, parser_stats, shipper_stats, observed>>

\* summary: the next argument of dict(...) is read
StatusRead ==
    /\ threads.status.pc = "read"
    /\ LET obj == threads.status.obj
           field == SummaryFields(obj)[threads.status.i]
       IN threads' = [threads EXCEPT
                         !.status.summary = (field.key :> StatsOf(obj)[field.attr]) @@ @,
                         !.status.i = @ + 1,
                         !.status.pc = IF threads.status.i = Len(SummaryFields(obj))
                                       THEN "release" ELSE "read"]
    /\ UNCHANGED <<stats_frame, parser_stats, shipper_stats, locks, observed>>

\* str(datetime)
StrOfTime(t) == [k |-> "str", time |-> t]

\* send_stats: the two summaries, with the times turned into str
Published(parser, shipper) ==
    [parser |-> [parser EXCEPT !["last_new_file_time"] = StrOfTime(@)],
     shipper |-> [shipper EXCEPT !["last_document_indexed_at"] = StrOfTime(@)]]

\* summary returns; after the second one send_stats builds the response
StatusRelease ==
    /\ threads.status.pc = "release"
    /\ locks' = [locks EXCEPT ![threads.status.obj] = "free"]
    /\ IF threads.status.obj = "parser"
       THEN /\ threads' = [threads EXCEPT !.status = [pc |-> "acquire",
                                                      obj |-> "shipper", i |-> 1,
                                                      summary |-> <<>>,
                                                      parser |-> threads.status.summary]]
            /\ observed' = [observed EXCEPT
                                !.returned = @ \cup {<<"parser", threads.status.summary>>}]
       ELSE /\ threads' = [threads EXCEPT !.status = [pc |-> "idle", obj |-> "none",
                                                      i |-> 0, summary |-> <<>>,
                                                      parser |-> <<>>]]
            /\ observed' = [observed EXCEPT
                                !.returned = @ \cup {<<"shipper", threads.status.summary>>},
                                !.published = Published(threads.status.parser,
                                                        threads.status.summary)]
    /\ UNCHANGED <<stats_frame, parser_stats, shipper_stats>>

StatsNext ==
    \/ \E w \in StatsWorkers : \E attr \in Counters(w) \cup {TimeAttr(w)} :
          StatsCall(w, attr)
    \/ \E w \in StatsWorkers : StatsAcquire(w)
    \/ \E w \in StatsWorkers : StatsLoad(w)
    \/ \E w \in StatsWorkers : StatsStore(w)
    \/ \E w \in StatsWorkers : StatsRelease(w)
    \/ StatusRequest
    \/ StatusAcquire
    \/ StatusRead
    \/ StatusRelease

StatsSpec == StatsInit /\ [][StatsNext]_vars

\* the summary agrees, on every key, with the values the object had at one
\* moment
HeldTogether(obj, summary) ==
    \E s \in observed.seen[obj] :
        \A i \in 1..Len(SummaryFields(obj)) :
            summary[SummaryFields(obj)[i].key] = s[SummaryFields(obj)[i].attr]

\* C17: when no call of a worker is in progress, each counter of its stats
\* object equals the number of increment calls that have returned, and every
\* summary that has returned holds values the object had together at one
\* moment.
C17_StatsConcurrency ==
    /\ \A w \in StatsWorkers :
          threads[w].pc = "idle" =>
              \A attr \in Counters(w) : StatsOf(w)[attr] = observed.completed[w][attr]
    /\ \A r \in observed.returned : HeldTogether(r[1], r[2])

\* a summary of the shipper stats has returned between two increments of
\* different counters that have both returned
C17_Witness ==
    /\ \E r \in observed.returned :
          /\ r[1] = "shipper"
          /\ r[2]["documents_indexed"] = 1
          /\ r[2]["duplicates_skipped"] = 0
    /\ shipper_stats.duplicates_skipped = 1
    /\ threads.shipper.pc = "idle"

\* C18: the snapshot send_stats publishes has exactly the parser fields
\* lines_processed, lines_errored, files_processed and last_new_file_time and
\* the shipper fields documents_indexed, documents_errored,
\* duplicates_skipped and last_document_indexed_at, with the values of the
\* counters.
C18_SnapshotShape ==
    observed.published # <<>> =>
        /\ DOMAIN observed.published.parser =
              {"lines_processed", "lines_errored", "files_processed",
               "last_new_file_time"}
        /\ DOMAIN observed.published.shipper =
              {"documents_indexed", "documents_errored", "duplicates_skipped",
               "last_document_indexed_at"}
        /\ \E s \in observed.seen["parser"] :
              \A attr \in Counters("parser") : observed.published.parser[attr] = s[attr]
        /\ \E s \in observed.seen["shipper"] :
              \A attr \in Counters("shipper") : observed.published.shipper[attr] = s[attr]

(***************************************************************************)
(* Order of the records and moves of the objects                           *)
(***************************************************************************)
\* C19: every record the parser puts goes behind the records already on the
\* record queue, and it is the record of a later line than every record put
\* before it for the same batch.
C19_LineOrder ==
    [][emitted' # emitted =>
          LET new == emitted'[Len(emitted')]
          IN /\ record_queue' = Append(record_queue, new.pair)
             /\ \A n \in 1..Len(emitted) :
                   emitted[n].batch = new.batch => emitted[n].line < new.line]_vars

\* the records of two lines of one batch are on the record queue, the one of
\* the earlier line first
C19_Witness ==
    /\ Len(emitted) >= 2
    /\ emitted[1].batch = emitted[2].batch
    /\ emitted[1].line < emitted[2].line
    /\ emitted[1].pair # emitted[2].pair
    /\ record_queue = <<emitted[1].pair, emitted[2].pair>>

\* C20: an object comes under the processed prefix only from the processing
\* prefix, and every name the fetcher puts on the to-do queue starts with the
\* processing prefix and is the key of an object of the bucket.
C20_PrefixStateMachine ==
    [][/\ \A base \in FetcherBases :
             (/\ Key(processed_prefix, base) \notin DOMAIN bucket
              /\ Key(processed_prefix, base) \in DOMAIN bucket')
                 => Key(processing_prefix, base) \in DOMAIN bucket
       /\ Len(to_do') > Len(to_do) =>
             /\ StartsWith(to_do'[Len(to_do')][1], processing_prefix)
             /\ to_do'[Len(to_do')][1] \in DOMAIN bucket']_vars

(***************************************************************************)
(* The fetcher and the objects it claims                                   *)
(***************************************************************************)
\* the log objects this step takes away from the unprocessed prefix
LeftUnprocessed ==
    {base \in FetcherBases : /\ Key(unprocessed_prefix, base) \in DOMAIN bucket
                             /\ Key(unprocessed_prefix, base) \notin DOMAIN bucket'}

AttemptsWith(outcomes) == {n \in 1..Len(attempts) : attempts[n].outcome \in outcomes}

\* the counters of the shipper are the numbers of create calls by outcome
CountersMatchAttempts ==
    /\ shipper_stats.documents_indexed = Cardinality(AttemptsWith({"created"}))
    /\ shipper_stats.duplicates_skipped = Cardinality(AttemptsWith({"conflict"}))
    /\ shipper_stats.documents_errored =
          Cardinality(AttemptsWith({"error", "error-stored"}))
    /\ shipper_stats.documents_indexed + shipper_stats.duplicates_skipped
          + shipper_stats.documents_errored
          = Cardinality(AttemptsWith({"created", "conflict", "error", "error-stored"}))

\* what one create call changes, by its outcome
OneOutcome ==
    Attempted =>
        LET pair == Head(record_queue)
            plus(attr) == shipper_stats'[attr] - shipper_stats[attr]
        IN /\ attempts'[Len(attempts')].id = pair[1]
           /\ attempts'[Len(attempts')].record = pair[2]
           /\ LastOutcome = "created" =>
                 /\ plus("documents_indexed") = 1
                 /\ plus("duplicates_skipped") = 0
                 /\ plus("documents_errored") = 0
                 /\ shipper_stats'.last_document_time > shipper_stats.last_document_time
                 /\ record_queue' = Tail(record_queue)
           /\ LastOutcome = "conflict" =>
                 /\ plus("documents_indexed") = 0
                 /\ plus("duplicates_skipped") = 1
                 /\ plus("documents_errored") = 0
                 /\ shipper_stats'.last_document_time = shipper_stats.last_document_time
                 /\ record_queue' = Tail(record_queue)
           /\ LastOutcome \in {"error", "error-stored"} =>
                 /\ plus("documents_indexed") = 0
                 /\ plus("duplicates_skipped") = 0
                 /\ plus("documents_errored") = 1
                 /\ shipper_stats'.last_document_time = shipper_stats.last_document_time
                 /\ record_queue' = Append(Tail(record_queue), pair)

\* C22: a create call that succeeds increments only documents_indexed and
\* sets the time of the last document; one that raises a conflict increments
\* only duplicates_skipped and does not put the pair back; one that fails in
\* another way increments only documents_errored and puts the same pair back
\* on the record queue.  In every state the three counters are the numbers of
\* create calls with these outcomes, and their sum is the number of calls.
C22_OneOutcomePerAttempt == []CountersMatchAttempts /\ [][OneOutcome]_vars

\* create has succeeded, raised a conflict and failed in another way
C22_Witness ==
    /\ AttemptsWith({"created"}) # {}
    /\ AttemptsWith({"conflict"}) # {}
    /\ AttemptsWith({"error", "error-stored"}) # {}
    /\ shipper_stats.documents_indexed + shipper_stats.duplicates_skipped
          + shipper_stats.documents_errored = Len(attempts)

(***************************************************************************)
(* The counters of the parser                                              *)
(***************************************************************************)
\* the records the parser has put on the record queue: the ones on the queue
\* and the ones the shipper has taken, less the ones the shipper has put back
RecordsPutByParser ==
    Len(record_queue) + Len(attempts)
        - Cardinality(AttemptsWith({"error", "error-stored"}))

\* C23: lines_processed is the number of records the parser has put on the
\* record queue, one for each line it counts; a line counted in
\* lines_errored has no record, so that no line is counted twice.
C23_LineCounters ==
    /\ parser_stats.lines_processed = RecordsPutByParser
    /\ parser_stats.lines_processed = Len(emitted)
    /\ parser_stats.lines_errored = Len(errored)
    /\ \A n \in 1..Len(errored) : ~RecordOf(errored[n].batch, errored[n].line)
    /\ \A n, m \in 1..Len(emitted) :
          (emitted[n].batch = emitted[m].batch /\ emitted[n].line = emitted[m].line)
              => n = m

\* the parser waits for work after lines of both kinds, and the shipper has
\* put a record back
C23_Witness ==
    /\ parser_pc = "get"
    /\ parser_stats.lines_processed >= 1
    /\ parser_stats.lines_errored = 1
    /\ AttemptsWith({"error", "error-stored"}) # {}
    /\ record_queue # <<>>

(***************************************************************************)
(* The notifications of the parser.  Nothing takes from the done queue in  *)
(* Spec, so done holds every notification the parser has put, in order.    *)
(***************************************************************************)
\* the name the parser received with its k-th batch
BatchName(k) == Key(processing_prefix, claimed[k])

\* the parser is at work on its latest batch
InBatch == parser_pc \in {"parse", "finish"}

\* C24: the parser has put one notification on the done queue for every
\* batch it has taken and is no longer at work on, with the name of the
\* batch, and none for the batch it is at work on; when it waits for work,
\* files_processed is the number of notifications it has put.
C24_Handshake ==
    /\ Len(done) = IF InBatch THEN batch_no - 1 ELSE batch_no
    /\ \A k \in 1..Len(done) : k <= batch_no /\ done[k] = BatchName(k)
    /\ parser_pc = "get" => parser_stats.files_processed = Len(done)

(***************************************************************************)
(* The parser with the loop of the fetcher behind it: the environment, in  *)
(* the place of the claim, puts a log object under the processing prefix   *)
(* and its batch on the to-do queue; the parser reports the batch on the   *)
(* done queue and S3LogFetcher.run takes the name from there.  Nothing is  *)
(* under the unprocessed prefix, so get_next_log returns None.             *)
(***************************************************************************)
PutClaimed(base) ==
    /\ Len(claimed) < MaxBatches
    /\ ~InBucket(bucket, base)
    /\ bucket' = bucket @@ (Key(processing_prefix, base) :> base)
    /\ to_do' = Append(to_do, <<Key(processing_prefix, base), Content(base)>>)
    /\ claimed' = Append(claimed, base)
    /\ UNCHANGED <<aux_vars, shipper_vars, done, record_queue, healthy, fetcher_pc,
                   prime_i, storage_errors, uploads, notified, last_storage_op,
                   last_finalize, taken, parser_pc, name, lines, line_no,
                   parser_stats, batch_no, emitted, errored>>

HandshakeNext ==
    \/ \E base \in BaseSet : PutClaimed(base)
    \/ ParserGet
    \/ ParseLine
    \/ ParserFinish
    \/ FetcherPrime
    \/ FetcherFinalize
    \/ FetcherReplenish

HandshakeInit ==
    /\ WorkersInit
    /\ AuxIdle
    /\ bucket = <<>>
    /\ fromisoformat_accepts_z = TRUE

HandshakeSpec == HandshakeInit /\ [][HandshakeNext]_vars

\* parse_alb_logs has come to a line of the k-th batch that no expression
\* matches and counted it, with lines of the batch left after it
Abandoned(k) ==
    /\ HasUnmatched(BatchLines(k))
    /\ FirstUnmatched(BatchLines(k)) < Len(BatchLines(k))
    /\ \E j \in 1..Len(ErroredOf(k)) :
          ErroredOf(k)[j].line = FirstUnmatched(BatchLines(k))

\* the lines of an abandoned batch after the unmatched one are neither put
\* as records nor counted, the batch is counted in files_processed as soon
\* as run has gone on from it, and the two line counters have grown by the
\* position of the unmatched line, less than the number of lines
AbandonedIsReported ==
    \A k \in 1..batch_no :
        Abandoned(k) =>
            LET i == FirstUnmatched(BatchLines(k))
            IN /\ (k = batch_no /\ parser_pc = "finish")
                      \/ parser_stats.files_processed >= k
               /\ \A j \in 1..Len(EmittedOf(k)) : EmittedOf(k)[j].line < i
               /\ \A j \in 1..Len(ErroredOf(k)) : ErroredOf(k)[j].line <= i
               /\ Len(EmittedOf(k)) + Len(ErroredOf(k)) = i
               /\ Len(EmittedOf(k)) + Len(ErroredOf(k)) < Len(BatchLines(k))

\* run going on from an abandoned batch puts its name on the done queue and
\* counts the file
AbandonedIsNotified ==
    (parser_pc = "finish" /\ parser_pc' # "finish" /\ Abandoned(batch_no)) =>
        /\ done' = Append(done, BatchName(batch_no))
        /\ parser_stats'.files_processed = parser_stats.files_processed + 1

\* mark_log_processed returning for the name of an abandoned batch has moved
\* the object of the batch to the processed prefix
AbandonedIsFinalized ==
    (fetcher_pc = "wait" /\ fetcher_pc' = "replenish" /\ last_finalize' = "ok") =>
        \A k \in 1..batch_no :
            (Abandoned(k) /\ Head(done) = BatchName(k)) =>
                /\ BatchName(k) \notin DOMAIN bucket'
                /\ Key(processed_prefix, claimed[k]) \in DOMAIN bucket'
                /\ bucket'[Key(processed_prefix, claimed[k])] = claimed[k]

\* C25: a batch that parse_alb_logs abandons at an unmatched line is still
\* put on the done queue and counted in files_processed, and the fetcher
\* moves its object to the processed prefix, although no line after the
\* unmatched one was put as a record or counted in lines_errored:
\* lines_processed + lines_errored has grown by less than the number of
\* lines of the file.
C25_AbandonedBatchReportedDone ==
    /\ []AbandonedIsReported
    /\ [][AbandonedIsNotified /\ AbandonedIsFinalized]_vars

\* the object of an abandoned batch is under the processed prefix, one
\* record put and one line counted as errored for its three lines
C25_Witness ==
    \E k \in 1..batch_no :
        /\ Abandoned(k)
        /\ Key(processed_prefix, claimed[k]) \in DOMAIN bucket
        /\ Len(EmittedOf(k)) = 1
        /\ Len(ErroredOf(k)) = 1
        /\ Len(BatchLines(k)) = 3
        /\ parser_stats.files_processed >= k

(***************************************************************************)
(* The objects in flight                                                   *)
(***************************************************************************)
\* the objects the fetcher has moved out of the unprocessed prefix that are
\* not under the processed prefix
InFlight == {base \in taken : Key(processed_prefix, base) \notin DOMAIN bucket}

Held(b, base) ==
    \E prefix \in {unprocessed_prefix, processing_prefix, processed_prefix} :
        /\ Key(prefix, base) \in DOMAIN b
        /\ b[Key(prefix, base)] = base

\* C27: no step loses a log object: the content of a log object that is
\* under one of the three prefixes before a step, a rename that raises
\* between its copy and its delete and a finalize that is tried again
\* included, is under one of them after it.
C27_NoObjectLost ==
    [][\A base \in BaseSet : Held(bucket, base) => Held(bucket', base)]_vars

\* the copy of a finalize succeeded and its delete raised: the object is
\* under the processing and the processed prefix and its name is back on
\* the done queue
C27_Witness ==
    \E base \in FetcherBases :
        /\ last_finalize = "raised"
        /\ last_storage_op = Op("delete", FALSE)
        /\ Key(processing_prefix, base) \in DOMAIN bucket
        /\ Key(processed_prefix, base) \in DOMAIN bucket
        /\ bucket[Key(processed_prefix, base)] = base
        /\ done # <<>>
        /\ done[Len(done)] = Key(processing_prefix, base)

====
